---- MODULE Spec2Model ----
(***************************************************************************)
(* A model of src/index.tsx, the single React component `App` of the AI    *)
(* study tool: its useState fields, its event handlers, the asynchronous   *)
(* continuation of handleGenerate after each await, the delayed index      *)
(* update of navigateCard, and the two localStorage entries.               *)
(*                                                                         *)
(* Scheduling: the browser runs one task at a time.  A click handler runs *)
(* to completion and React re-renders before the next event, so a handler  *)
(* reads the current state.  The code after an `await` and the callback of *)
(* setTimeout run later and read the variables of the render that created  *)
(* them (the closure), which the model keeps with the pending work.        *)
(***************************************************************************)
EXTENDS Integers, Sequences, FiniteSets, TLC

(* ------------------------------ bounds -------------------------------- *)
\* Longest item list the text-generation service returns in Spec.
MaxItems == 2
\* handleGenerate invocations per behaviour (also the range of record ids).
MaxGen == 2
\* Pending setTimeout callbacks of navigateCard.
MaxTimers == 3
\* Capacity of the model for concurrently running handleGenerate calls.
MaxInFlight == 2
\* Longest list of the stand-alone review machines (SpecFlash, SpecMcq).
MaxReview == 3
\* Logged handleViewHistoryItem calls per behaviour (SpecSelect).
MaxSelect == 2

(* ------------------------------ values -------------------------------- *)
Null == "null"

InputTypes == {"text", "image"}
GenerationModes == {"flashcards", "mcqs"}
\* The theme selector's options (two of the four literals).
Themes == {"default", "dark"}

\* Text the user can type: nothing, one blank, or a word.
Texts == {"", " ", "a"}
\* An icon that is absent (the item has no `icon`), or not yet received.
NoIcon == << >>
\* A localStorage entry that does not exist; an existing one is <<its text>>.
Absent == << >>

\* The values of `error`.
ErrEmptyInput == "Please provide some content to generate."
ErrNoContent == "Could not generate content. Please try again with a different source."
ErrFailed == "An error occurred while generating. Please check the console for details."

\* The option strings of a generated MCQ.
OptionPool == <<"a", "b", "c", "d">>
\* Question text of the i-th generated item.
Question(i) == <<"q", i>>

Flashcard(i) == [question |-> Question(i), answer |-> <<"ans", i>>, icon |-> NoIcon]
McqItem(i, ca) == [question |-> Question(i), options |-> OptionPool,
                   correctAnswer |-> ca, icon |-> NoIcon]

\* Item lists of exactly n items.
FlashcardList(n) == [i \in 1..n |-> Flashcard(i)]
McqLists(n) == {[i \in 1..n |-> McqItem(i, ca[i])] : ca \in [1..n -> {"a", "b"}]}

\* The responseSchema of the MCQ request asks for `options` to be an array of
\* strings and `correctAnswer` to be a string, and no more: arrays of another
\* length or with a repeated string, and an answer that is no option, conform.
SchemaOptions == {OptionPool, <<"a", "b", "c">>, <<"a", "a", "b", "c">>}
SchemaAnswers == {"a", "e"}

SchemaMcqLists(n) ==
    {[i \in 1..n |-> [question |-> Question(i), options |-> c[i][1],
                      correctAnswer |-> c[i][2], icon |-> NoIcon]] :
        c \in [1..n -> SchemaOptions \X SchemaAnswers]}

\* What JSON.parse(response.text) can yield for a request in `mode`.
ParsedResponses(mode, max) ==
    IF mode = "mcqs" THEN UNION {McqLists(n) \cup SchemaMcqLists(n) : n \in 0..max}
    ELSE {FlashcardList(n) : n \in 0..max}

\* The image the image service returns for a prompt built from `question`.
ImageBytes(question) == <<"png", question>>
\* `data:image/png;base64,${imageBytes}`
DataUri(bytes) == <<"data:image/png;base64,", bytes>>

Range(s) == {s[i] : i \in 1..Len(s)}

(* ------------------------------- state -------------------------------- *)
VARIABLES
    inputType, generationMode, textContent, image, imagePreview, generateIcons,
    flashcards, mcqs, isLoading, error,
    currentCard, isFlipped,
    currentMcq, selectedOption, isAnswered, score, quizFinished,
    history, isHistoryVisible, theme,
    lsHistory, lsTheme,      \* localStorage: studyAppHistory, studyAppTheme
    gens,                    \* running handleGenerate calls, each suspended at an await
    timers,                  \* pending setTimeout callbacks of navigateCard, in order
    clock,                   \* Date.now(), advanced once per handleGenerate call
    outcome,                 \* the branch the last handleGenerate call ended in
    picked, nexts, last      \* log of the review-machine calls since the last restart

inputVars == <<inputType, generationMode, textContent, image, imagePreview,
               generateIcons>>
displayVars == <<flashcards, mcqs>>
flashVars == <<currentCard, isFlipped>>
mcqVars == <<currentMcq, selectedOption, isAnswered, score, quizFinished>>
histVars == <<history, isHistoryVisible>>
storageVars == <<lsHistory, lsTheme>>
asyncVars == <<gens, timers, clock, outcome>>
logVars == <<picked, nexts, last>>

vars == <<inputVars, displayVars, isLoading, error, flashVars, mcqVars,
          histVars, theme, storageVars, asyncVars, logVars>>

(* --------------------------- localStorage ----------------------------- *)
\* JSON.stringify of one history record: an object becomes the text of its
\* key/value pairs in insertion order.
StringifyRecord(r) ==
    <<"{", <<"id", r.id>>, <<"timestamp", r.timestamp>>, <<"inputType", r.inputType>>,
      <<"generationMode", r.generationMode>>, <<"inputContent", r.inputContent>>,
      <<"generatedData", r.generatedData>>, <<"theme", r.theme>>, "}">>

\* JSON.stringify(updatedHistory)
Stringify(h) == [i \in 1..Len(h) |-> StringifyRecord(h[i])]

ParseRecord(t) ==
    [id |-> t[2][2], timestamp |-> t[3][2], inputType |-> t[4][2],
     generationMode |-> t[5][2], inputContent |-> t[6][2],
     generatedData |-> t[7][2], theme |-> t[8][2]]

\* JSON.parse(storedHistory)
Parse(s) == [i \in 1..Len(s) |-> ParseRecord(s[i])]

(* -------------------------------- Init -------------------------------- *)
\* useState defaults, then the mount effect on an empty localStorage.
Init ==
    /\ inputType = "text"
    /\ generationMode = "flashcards"
    /\ textContent = ""
    /\ image = Null
    /\ imagePreview = Null
    /\ generateIcons = FALSE
    /\ flashcards = << >>
    /\ mcqs = << >>
    /\ isLoading = FALSE
    /\ error = Null
    /\ currentCard = 0
    /\ isFlipped = FALSE
    /\ currentMcq = 0
    /\ selectedOption = Null
    /\ isAnswered = FALSE
    /\ score = 0
    /\ quizFinished = FALSE
    /\ history = << >>
    /\ isHistoryVisible = FALSE
    /\ theme = "default"
    /\ lsHistory = Absent
    /\ lsTheme = Absent
    /\ gens = << >>
    /\ timers = << >>
    /\ clock = 0
    /\ outcome = "none"
    /\ picked = << >>
    /\ nexts = 0
    /\ last = <<"none", "none">>

(* --------------------------- input handlers -------------------------- *)
\* The textarea's onChange: setTextContent(e.target.value).
SetText(t) ==
    /\ inputType = "text"
    /\ textContent' = t
    /\ UNCHANGED <<inputType, generationMode, image, imagePreview, generateIcons,
                   displayVars, isLoading, error, flashVars, mcqVars,
                   histVars, theme, storageVars, asyncVars, logVars>>

\* handleImageChange with a file chosen.  The FileReader that fills imagePreview
\* reads a local file; its onloadend is taken to run before the next user event.
HandleImageChange ==
    /\ inputType = "image"
    /\ image' = "file"
    /\ imagePreview' = "preview"
    /\ error' = Null
    /\ UNCHANGED <<inputType, generationMode, textContent, generateIcons,
                   displayVars, isLoading, flashVars, mcqVars, histVars, theme,
                   storageVars, asyncVars, logVars>>

\* The checkbox: setGenerateIcons(e.target.checked).
ToggleIcons ==
    /\ generateIcons' = ~generateIcons
    /\ UNCHANGED <<inputType, generationMode, textContent, image, imagePreview,
                   displayVars, isLoading, error, flashVars, mcqVars,
                   histVars, theme, storageVars, asyncVars, logVars>>

ResetInput ==
    /\ textContent' = ""
    /\ image' = Null
    /\ imagePreview' = Null
    /\ flashcards' = << >>
    /\ mcqs' = << >>
    /\ error' = Null

ChangeInputType(type) ==
    /\ inputType' = type
    /\ ResetInput
    /\ UNCHANGED <<generationMode, generateIcons, isLoading, flashVars,
                   mcqVars, histVars, theme, storageVars, asyncVars, logVars>>

ChangeGenerationMode(mode) ==
    /\ generationMode' = mode
    /\ ResetInput
    /\ UNCHANGED <<inputType, generateIcons, isLoading, flashVars,
                   mcqVars, histVars, theme, storageVars, asyncVars, logVars>>

\* handleThemeChange; localStorage.setItem throws when the quota is exhausted
\* (`stored` false), after setTheme has been called.
HandleThemeChange(selectedTheme, stored) ==
    /\ theme' = selectedTheme
    /\ lsTheme' = IF stored THEN <<selectedTheme>> ELSE lsTheme
    /\ UNCHANGED <<inputVars, displayVars, isLoading, error, flashVars, mcqVars,
                   histVars, lsHistory, asyncVars, logVars>>

(* ------------------------ flashcard review machine -------------------- *)
\* renderFlashcards is part of the page.
FlashViewShown ==
    Len(flashcards) > 0 /\ ~isLoading /\ generationMode = "flashcards"

\* The flashcard container's onClick: setIsFlipped(!isFlipped).
Flip ==
    /\ FlashViewShown
    /\ isFlipped' = ~isFlipped
    /\ UNCHANGED <<inputVars, displayVars, isLoading, error, currentCard, mcqVars,
                   histVars, theme, storageVars, asyncVars, logVars>>

\* navigateCard, up to the setTimeout: the callback keeps the `flashcards` of the
\* render the click happened in.  The buttons are disabled at the two ends.
NavigateCard(direction) ==
    /\ FlashViewShown
    /\ direction = -1 => currentCard # 0
    /\ direction = 1 => currentCard # Len(flashcards) - 1
    /\ Len(timers) < MaxTimers
    /\ isFlipped' = FALSE
    /\ timers' = Append(timers, [direction |-> direction, len |-> Len(flashcards)])
    /\ UNCHANGED <<inputVars, displayVars, isLoading, error, currentCard, mcqVars,
                   histVars, theme, storageVars, gens, clock, outcome, logVars>>

\* The wrap-around a modulo would give.
NextCardWrapped(prev, direction, len) == (prev + direction + len) % len

\* The updater given to setCurrentCard.
NextCard(prev, direction, len) ==
    LET next == prev + direction
    IN  IF next >= 0 /\ next < len THEN next ELSE prev

\* The setTimeout callback, 150 ms later; equal delays run in the order set.
TimerFire ==
    /\ timers # << >>
    /\ currentCard' = NextCard(currentCard, Head(timers).direction, Head(timers).len)
    /\ timers' = Tail(timers)
    /\ UNCHANGED <<inputVars, displayVars, isLoading, error, isFlipped, mcqVars,
                   histVars, theme, storageVars, gens, clock, outcome, logVars>>

(* --------------------------- MCQ review machine ----------------------- *)
\* renderMCQs is part of the page.
McqViewShown ==
    Len(mcqs) > 0 /\ ~isLoading /\ generationMode = "mcqs"

\* handleOptionClick without its first line.
HandleOptionClickNoGuard(option) ==
    /\ isAnswered' = TRUE
    /\ selectedOption' = option
    /\ score' = IF option = mcqs[currentMcq + 1].correctAnswer THEN score + 1 ELSE score
    /\ UNCHANGED <<currentMcq, quizFinished>>

HandleOptionClick(option) ==
    IF isAnswered
    THEN UNCHANGED mcqVars
    ELSE /\ isAnswered' = TRUE
         /\ selectedOption' = option
         /\ score' = IF option = mcqs[currentMcq + 1].correctAnswer
                     THEN score + 1 ELSE score
         /\ UNCHANGED <<currentMcq, quizFinished>>

\* handleNextQuestion finishing one question early.
HandleNextQuestionEarly ==
    IF currentMcq < Len(mcqs) - 2
    THEN /\ currentMcq' = currentMcq + 1
         /\ isAnswered' = FALSE
         /\ selectedOption' = Null
         /\ UNCHANGED <<score, quizFinished>>
    ELSE /\ quizFinished' = TRUE
         /\ UNCHANGED <<currentMcq, selectedOption, isAnswered, score>>

HandleNextQuestion ==
    IF currentMcq < Len(mcqs) - 1
    THEN /\ currentMcq' = currentMcq + 1
         /\ isAnswered' = FALSE
         /\ selectedOption' = Null
         /\ UNCHANGED <<score, quizFinished>>
    ELSE /\ quizFinished' = TRUE
         /\ UNCHANGED <<currentMcq, selectedOption, isAnswered, score>>

\* restartQuiz keeping the score.
RestartQuizKeepScore ==
    /\ currentMcq' = 0
    /\ selectedOption' = Null
    /\ isAnswered' = FALSE
    /\ score' = score
    /\ quizFinished' = FALSE

\* restartQuiz leaving the selection.
RestartQuizKeepSelection ==
    /\ currentMcq' = 0
    /\ selectedOption' = selectedOption
    /\ isAnswered' = FALSE
    /\ score' = 0
    /\ quizFinished' = FALSE

RestartQuiz ==
    /\ currentMcq' = 0
    /\ selectedOption' = Null
    /\ isAnswered' = FALSE
    /\ score' = 0
    /\ quizFinished' = FALSE

\* An option button's onClick; the buttons are disabled once answered.
ClickOption(option) ==
    /\ McqViewShown /\ ~quizFinished
    /\ option \in Range(mcqs[currentMcq + 1].options)
    /\ ~isAnswered
    /\ HandleOptionClick(option)
    /\ UNCHANGED <<inputVars, displayVars, isLoading, error, flashVars, histVars,
                   theme, storageVars, asyncVars, logVars>>

\* The next button, rendered once the question is answered.
ClickNext ==
    /\ McqViewShown /\ ~quizFinished
    /\ isAnswered
    /\ HandleNextQuestion
    /\ UNCHANGED <<inputVars, displayVars, isLoading, error, flashVars, histVars,
                   theme, storageVars, asyncVars, logVars>>

\* "Try Again" on the summary.
ClickTryAgain ==
    /\ McqViewShown /\ quizFinished
    /\ RestartQuiz
    /\ UNCHANGED <<inputVars, displayVars, isLoading, error, flashVars, histVars,
                   theme, storageVars, asyncVars, logVars>>

(* ------------------------------ history ------------------------------- *)
\* The history button and the panel's close button.
OpenHistory ==
    /\ ~isHistoryVisible
    /\ isHistoryVisible' = TRUE
    /\ UNCHANGED <<inputVars, displayVars, isLoading, error, flashVars, mcqVars,
                   history, theme, storageVars, asyncVars, logVars>>

CloseHistory ==
    /\ isHistoryVisible
    /\ isHistoryVisible' = FALSE
    /\ UNCHANGED <<inputVars, displayVars, isLoading, error, flashVars, mcqVars,
                   history, theme, storageVars, asyncVars, logVars>>

\* handleViewHistoryItem leaving the side of the card of a flashcard record.
ViewHistoryItemKeepSide(item) ==
    /\ isHistoryVisible
    /\ item \in Range(history)
    /\ error' = Null
    /\ generationMode' = item.generationMode
    /\ theme' = item.theme
    /\ IF item.generationMode = "flashcards"
       THEN /\ flashcards' = item.generatedData
            /\ mcqs' = << >>
            /\ currentCard' = 0
            /\ UNCHANGED <<isFlipped, mcqVars>>
       ELSE /\ mcqs' = item.generatedData
            /\ flashcards' = << >>
            /\ RestartQuiz
            /\ UNCHANGED flashVars
    /\ isHistoryVisible' = FALSE
    /\ UNCHANGED <<inputType, textContent, image, imagePreview, generateIcons,
                   isLoading, history, storageVars, asyncVars>>

\* The body of handleViewHistoryItem.
ViewHistoryItem(item) ==
    /\ isHistoryVisible
    /\ item \in Range(history)
    /\ error' = Null
    /\ generationMode' = item.generationMode
    /\ theme' = item.theme
    /\ IF item.generationMode = "flashcards"
       THEN /\ flashcards' = item.generatedData
            /\ mcqs' = << >>
            /\ currentCard' = 0
            /\ isFlipped' = FALSE
            /\ UNCHANGED mcqVars
       ELSE /\ mcqs' = item.generatedData
            /\ flashcards' = << >>
            /\ RestartQuiz
            /\ UNCHANGED flashVars
    /\ isHistoryVisible' = FALSE
    /\ UNCHANGED <<inputType, textContent, image, imagePreview, generateIcons,
                   isLoading, history, storageVars, asyncVars>>

\* handleViewHistoryItem, the onClick of a record of the panel.
HandleViewHistoryItem(item) ==
    /\ ViewHistoryItem(item)
    /\ UNCHANGED logVars

\* handleClearHistory without its removeItem.
HandleClearHistoryKeepEntry ==
    /\ isHistoryVisible
    /\ history # << >>
    /\ history' = << >>
    /\ UNCHANGED <<inputVars, displayVars, isLoading, error, flashVars, mcqVars,
                   isHistoryVisible, theme, storageVars, asyncVars, logVars>>

\* handleClearHistory; the button is disabled on an empty history.
HandleClearHistory ==
    /\ isHistoryVisible
    /\ history # << >>
    /\ history' = << >>
    /\ lsHistory' = Absent
    /\ UNCHANGED <<inputVars, displayVars, isLoading, error, flashVars, mcqVars,
                   isHistoryVisible, theme, lsTheme, asyncVars, logVars>>

(* ------------------------- generation pipeline ------------------------ *)
\* The condition of handleGenerate's first line (and of the button's `disabled`).
NoContent ==
    \/ inputType = "text" /\ textContent = ""
    \/ inputType = "image" /\ image = Null

\* The call as the closure of the current render sees it, suspended at its first await.
NewCall ==
    [pc |-> IF inputType = "image" THEN "encode" ELSE "text",
     inputType |-> inputType,
     generationMode |-> generationMode,
     generateIcons |-> generateIcons,
     inputContent |-> IF inputType = "text" THEN textContent ELSE imagePreview,
     history |-> history,
     theme |-> theme,
     parsed |-> << >>,
     icons |-> << >>]

\* handleGenerate up to its first await.
HandleGenerate ==
    IF NoContent
    THEN /\ error' = ErrEmptyInput
         /\ UNCHANGED <<inputVars, displayVars, isLoading, flashVars, mcqVars, histVars,
                        theme, storageVars, asyncVars, logVars>>
    ELSE /\ isLoading' = TRUE
         /\ error' = Null
         /\ flashcards' = << >>
         /\ mcqs' = << >>
         /\ currentCard' = 0
         /\ isFlipped' = FALSE
         /\ RestartQuiz
         /\ gens' = Append(gens, NewCall)
         /\ clock' = clock + 1
         /\ outcome' = "started"
         /\ UNCHANGED <<inputVars, histVars, theme, storageVars, timers, logVars>>

\* The generate button without `isLoading` in its `disabled`.
ClickGenerateWhileLoading ==
    /\ ~NoContent
    /\ clock < MaxGen
    /\ Len(gens) < MaxInFlight
    /\ HandleGenerate

\* The generate button's onClick.
ClickGenerate ==
    /\ ~isLoading
    /\ ~NoContent
    /\ clock < MaxGen
    /\ Len(gens) < MaxInFlight
    /\ HandleGenerate

\* gens without its i-th call.
Without(i) == [j \in 1..(Len(gens) - 1) |-> IF j < i THEN gens[j] ELSE gens[j + 1]]

\* The finally block.
Finally(i) ==
    /\ isLoading' = FALSE
    /\ gens' = Without(i)

\* The catch block, then finally.
Catch(i) ==
    /\ error' = ErrFailed
    /\ Finally(i)
    /\ UNCHANGED <<inputVars, displayVars, flashVars, mcqVars, histVars, theme,
                   storageVars, timers, clock, logVars>>

\* fileToGenerativePart resolves: the request to the text service is sent.
EncodeResolve(i) ==
    /\ i \in 1..Len(gens)
    /\ gens[i].pc = "encode"
    /\ gens' = [gens EXCEPT ![i].pc = "text"]
    /\ UNCHANGED <<inputVars, displayVars, isLoading, error, flashVars, mcqVars,
                   histVars, theme, storageVars, timers, clock, outcome, logVars>>

\* The file cannot be read: onloadend runs with reader.result null, the callback
\* throws inside the reader's event, and the promise is never settled.
EncodeUnreadable(i) ==
    /\ i \in 1..Len(gens)
    /\ gens[i].pc = "encode"
    /\ gens' = [gens EXCEPT ![i].pc = "stuck"]
    /\ UNCHANGED <<inputVars, displayVars, isLoading, error, flashVars, mcqVars,
                   histVars, theme, storageVars, timers, clock, outcome, logVars>>

\* The record of lines 184-192.
NewHistoryItem(g, data) ==
    [id |-> clock,
     timestamp |-> <<"iso", clock>>,
     inputType |-> g.inputType,
     generationMode |-> g.generationMode,
     inputContent |-> g.inputContent,
     generatedData |-> data,
     theme |-> g.theme]

\* updatedHistory = [newHistoryItem, ...history], `history` being the closure's.
UpdatedHistory(g, data) == <<NewHistoryItem(g, data)>> \o g.history

\* Lines 177-195, then finally.  localStorage.setItem throws when the quota is
\* exhausted (`stored` false), which the catch block turns into the generic error.
Complete(i, data, stored) ==
    LET g == gens[i] IN
    /\ IF g.generationMode = "mcqs"
       THEN mcqs' = data /\ UNCHANGED flashcards
       ELSE flashcards' = data /\ UNCHANGED mcqs
    /\ history' = UpdatedHistory(g, data)
    /\ IF stored
       THEN lsHistory' = <<Stringify(UpdatedHistory(g, data))>> /\ UNCHANGED error
       ELSE error' = ErrFailed /\ UNCHANGED lsHistory
    /\ Finally(i)
    /\ UNCHANGED <<inputVars, flashVars, mcqVars, isHistoryVisible, theme, lsTheme,
                   timers, clock, logVars>>

\* The way handleGenerate ends when it reaches the persist step.
Persisted(stored) == IF stored THEN "ok" ELSE "storageError"

\* generateContent resolves and JSON.parse yields `parsed`; `stored` as in Complete.
TextResolve(i, parsed, stored) ==
    /\ i \in 1..Len(gens)
    /\ gens[i].pc = "text"
    /\ parsed \in ParsedResponses(gens[i].generationMode, MaxItems)
    /\ IF Len(parsed) > 0
       THEN IF gens[i].generateIcons
            THEN /\ gens' = [gens EXCEPT ![i].pc = "icons",
                                         ![i].parsed = parsed,
                                         ![i].icons = [k \in 1..Len(parsed) |-> NoIcon]]
                 /\ UNCHANGED <<inputVars, displayVars, isLoading, error, flashVars,
                                mcqVars, histVars, theme, storageVars, timers, clock,
                                outcome, logVars>>
            ELSE Complete(i, parsed, stored) /\ outcome' = Persisted(stored)
       ELSE /\ error' = ErrNoContent
            /\ outcome' = "empty"
            /\ Finally(i)
            /\ UNCHANGED <<inputVars, displayVars, flashVars, mcqVars, histVars, theme,
                           storageVars, timers, clock, logVars>>

\* generateContent rejects, or response.text is not JSON.
TextFail(i, why) ==
    /\ i \in 1..Len(gens)
    /\ gens[i].pc = "text"
    /\ why \in {"textRejected", "parseError"}
    /\ outcome' = why
    /\ Catch(i)

\* The map taking the icons from the other end of iconResponses.
EnrichReversed(parsed, iconResponses) ==
    [index \in 1..Len(parsed) |->
        [parsed[index] EXCEPT
            !.icon = DataUri(iconResponses[Len(parsed) + 1 - index])]]

\* parsedResponse.map((item, index) => ({...item, icon: ...iconResponses[index]...}))
Enrich(parsed, iconResponses) ==
    [index \in 1..Len(parsed) |->
        [parsed[index] EXCEPT !.icon = DataUri(iconResponses[index])]]

\* A rejected icon request treated as settled: the join goes on without it.
IconRejectIgnored(i, k) ==
    /\ i \in 1..Len(gens)
    /\ gens[i].pc = "icons"
    /\ k \in 1..Len(gens[i].icons)
    /\ gens[i].icons[k] = NoIcon
    /\ outcome' = "iconRejected"
    /\ Complete(i, gens[i].parsed, TRUE)

\* The k-th generateImages call resolves; Promise.all resolves with the last one,
\* its results in the order of the requests; `stored` as in Complete.
IconResolve(i, k, stored) ==
    /\ i \in 1..Len(gens)
    /\ gens[i].pc = "icons"
    /\ k \in 1..Len(gens[i].icons)
    /\ gens[i].icons[k] = NoIcon
    /\ LET iconResponses ==
             [gens[i].icons EXCEPT ![k] = ImageBytes(gens[i].parsed[k].question)]
       IN  IF \A j \in 1..Len(iconResponses) : iconResponses[j] # NoIcon
           THEN /\ Complete(i, Enrich(gens[i].parsed, iconResponses), stored)
                /\ outcome' = Persisted(stored)
           ELSE /\ gens' = [gens EXCEPT ![i].icons = iconResponses]
                /\ UNCHANGED <<inputVars, displayVars, isLoading, error, flashVars,
                               mcqVars, histVars, theme, storageVars, timers, clock,
                               outcome, logVars>>

\* The k-th generateImages call rejects: Promise.all rejects at once.
IconReject(i, k) ==
    /\ i \in 1..Len(gens)
    /\ gens[i].pc = "icons"
    /\ k \in 1..Len(gens[i].icons)
    /\ gens[i].icons[k] = NoIcon
    /\ outcome' = "iconRejected"
    /\ Catch(i)

\* What the mount effect would set `history` to (the useState default if the
\* entry is absent).
LoadHistory == IF lsHistory # Absent THEN Parse(lsHistory[1]) ELSE << >>

\* What the mount effect would set `theme` to.
LoadTheme == IF lsTheme # Absent THEN lsTheme[1] ELSE "default"

(* ------------------------------ page load ----------------------------- *)
\* The page is loaded again: useState defaults, then the mount effect reads
\* localStorage.  Work pending in the old page is gone.
Reload ==
    /\ inputType' = "text"
    /\ generationMode' = "flashcards"
    /\ textContent' = ""
    /\ image' = Null
    /\ imagePreview' = Null
    /\ generateIcons' = FALSE
    /\ flashcards' = << >>
    /\ mcqs' = << >>
    /\ isLoading' = FALSE
    /\ error' = Null
    /\ currentCard' = 0
    /\ isFlipped' = FALSE
    /\ RestartQuiz
    /\ history' = LoadHistory
    /\ isHistoryVisible' = FALSE
    /\ theme' = LoadTheme
    /\ gens' = << >>
    /\ timers' = << >>
    /\ outcome' = "none"
    /\ UNCHANGED <<storageVars, clock, logVars>>

(* ------------------- the review machines on their own ----------------- *)
\* The state of the MCQ review machine.
ReviewState ==
    IF quizFinished THEN "Finished" ELSE IF isAnswered THEN "Answered" ELSE "Answering"

\* A call of handleOptionClick for an option of the question on display, whether
\* or not the button is disabled; at most one call more than there are questions
\* is logged between two restarts.
SelectOption(option) ==
    /\ McqViewShown /\ ~quizFinished
    /\ option \in Range(mcqs[currentMcq + 1].options)
    /\ Len(picked) <= Len(mcqs)
    /\ HandleOptionClick(option)
    /\ picked' = Append(picked, <<currentMcq, option>>)
    /\ last' = <<"selectOption", ReviewState>>
    /\ UNCHANGED <<inputVars, displayVars, isLoading, error, flashVars, histVars,
                   theme, storageVars, asyncVars, nexts>>

\* A call of handleNextQuestion from its button.
NextQuestion ==
    /\ McqViewShown /\ ~quizFinished
    /\ isAnswered
    /\ HandleNextQuestion
    /\ nexts' = nexts + 1
    /\ last' = <<"next", ReviewState>>
    /\ UNCHANGED <<inputVars, displayVars, isLoading, error, flashVars, histVars,
                   theme, storageVars, asyncVars, picked>>

\* A call of restartQuiz: from "Try Again", or from handleViewHistoryItem on the
\* record on display, which calls it in any state.
Restart ==
    /\ McqViewShown
    /\ RestartQuiz
    /\ picked' = << >>
    /\ nexts' = 0
    /\ last' = <<"restart", ReviewState>>
    /\ UNCHANGED <<inputVars, displayVars, isLoading, error, flashVars, histVars,
                   theme, storageVars, asyncVars>>

\* A call of handleViewHistoryItem, logged with the review state it found; at
\* most MaxSelect calls are logged.
SelectRecord(item) ==
    /\ Len(picked) < MaxSelect
    /\ ViewHistoryItem(item)
    /\ picked' = Append(picked, [record |-> item, review |-> ReviewState,
                                 flipped |-> isFlipped])
    /\ UNCHANGED <<nexts, last>>

\* The state after a generation whose items are `items`, the history cleared
\* and the text box emptied since.
Generated(mode, items) ==
    /\ inputType = "text"
    /\ generationMode = mode
    /\ textContent = ""
    /\ image = Null
    /\ imagePreview = Null
    /\ generateIcons = FALSE
    /\ flashcards = IF mode = "flashcards" THEN items ELSE << >>
    /\ mcqs = IF mode = "mcqs" THEN items ELSE << >>
    /\ isLoading = FALSE
    /\ error = Null
    /\ currentCard = 0
    /\ isFlipped = FALSE
    /\ currentMcq = 0
    /\ selectedOption = Null
    /\ isAnswered = FALSE
    /\ score = 0
    /\ quizFinished = FALSE
    /\ history = << >>
    /\ isHistoryVisible = FALSE
    /\ theme = "default"
    /\ lsHistory = Absent
    /\ lsTheme = Absent
    /\ gens = << >>
    /\ timers = << >>
    /\ clock = 1
    /\ outcome = "ok"
    /\ picked = << >>
    /\ nexts = 0
    /\ last = <<"none", "none">>

InitFlash == \E n \in 1..MaxReview : Generated("flashcards", FlashcardList(n))

InitMcq == \E n \in 1..MaxReview : \E items \in McqLists(n) : Generated("mcqs", items)

(* ---------------------------- specifications -------------------------- *)
\* Responses whose MCQs all have the four options of OptionPool, the first one
\* being the correct answer.
SampleResponses(mode) ==
    {p \in ParsedResponses(mode, MaxItems) :
        \A i \in DOMAIN p : mode = "mcqs" =>
            p[i].options = OptionPool /\ p[i].correctAnswer = OptionPool[1]}

\* The responses of MaxItems items that conform to the responseSchema.
SchemaResponses(mode) ==
    {p \in ParsedResponses(mode, MaxItems) : Len(p) = MaxItems}

\* Of these, the empty one and the longest.
LongestResponses(mode) ==
    {p \in SampleResponses(mode) : Len(p) \in {0, MaxItems}}

\* What the user types when blanks do not matter.
Words == {"", "a"}

\* The generation pipeline, the inputs and the history panel.
Next ==
    \/ \E t \in Texts : SetText(t)
    \/ HandleImageChange
    \/ ToggleIcons
    \/ \E type \in InputTypes : ChangeInputType(type)
    \/ \E mode \in GenerationModes : ChangeGenerationMode(mode)
    \/ OpenHistory
    \/ CloseHistory
    \/ \E item \in Range(history) : HandleViewHistoryItem(item)
    \/ HandleClearHistory
    \/ ClickGenerate
    \/ \E i \in DOMAIN gens : EncodeResolve(i)
    \/ \E i \in DOMAIN gens : EncodeUnreadable(i)
    \/ \E i \in DOMAIN gens, stored \in BOOLEAN :
          \E p \in SampleResponses(gens[i].generationMode) : TextResolve(i, p, stored)
    \/ \E i \in DOMAIN gens, why \in {"textRejected", "parseError"} : TextFail(i, why)
    \/ \E i \in DOMAIN gens, stored \in BOOLEAN :
          \E k \in DOMAIN gens[i].icons : IconResolve(i, k, stored)
    \/ \E i \in DOMAIN gens : \E k \in DOMAIN gens[i].icons : IconReject(i, k)
    \/ Reload

Spec == Init /\ [][Next]_vars

\* The same with fewer inputs: the text is a word or empty, the service returns
\* no item or MaxItems items, and localStorage has room.
NextGen ==
    \/ \E t \in Words : SetText(t)
    \/ HandleImageChange
    \/ ToggleIcons
    \/ \E type \in InputTypes : ChangeInputType(type)
    \/ \E mode \in GenerationModes : ChangeGenerationMode(mode)
    \/ OpenHistory
    \/ CloseHistory
    \/ \E item \in Range(history) : HandleViewHistoryItem(item)
    \/ HandleClearHistory
    \/ ClickGenerate
    \/ \E i \in DOMAIN gens : EncodeResolve(i)
    \/ \E i \in DOMAIN gens : EncodeUnreadable(i)
    \/ \E i \in DOMAIN gens :
          \E p \in LongestResponses(gens[i].generationMode) : TextResolve(i, p, TRUE)
    \/ \E i \in DOMAIN gens, why \in {"textRejected", "parseError"} : TextFail(i, why)
    \/ \E i \in DOMAIN gens : \E k \in DOMAIN gens[i].icons : IconResolve(i, k, TRUE)
    \/ \E i \in DOMAIN gens : \E k \in DOMAIN gens[i].icons : IconReject(i, k)
    \/ Reload

SpecGen == Init /\ [][NextGen]_vars

\* A promise a running handleGenerate call awaits settles, or the FileReader
\* fires onloadend: the file read and the two services answer in the end, and the
\* event loop then runs the continuation.
Settle ==
    \/ \E i \in DOMAIN gens : EncodeResolve(i)
    \/ \E i \in DOMAIN gens : EncodeUnreadable(i)
    \/ \E i \in DOMAIN gens :
          \E p \in LongestResponses(gens[i].generationMode) : TextResolve(i, p, TRUE)
    \/ \E i \in DOMAIN gens, why \in {"textRejected", "parseError"} : TextFail(i, why)
    \/ \E i \in DOMAIN gens : \E k \in DOMAIN gens[i].icons : IconResolve(i, k, TRUE)
    \/ \E i \in DOMAIN gens : \E k \in DOMAIN gens[i].icons : IconReject(i, k)

\* SpecGen in which whatever is awaited settles in the end.
SpecLive == Init /\ [][NextGen]_vars /\ WF_vars(Settle)

\* The MCQ review among generations from text, mode and input-type changes and
\* the history panel; the user clicks the first (correct) or the second option.
NextQuiz ==
    \/ \E t \in Words : SetText(t)
    \/ \E type \in InputTypes : ChangeInputType(type)
    \/ \E mode \in GenerationModes : ChangeGenerationMode(mode)
    \/ \E o \in {OptionPool[1], OptionPool[2]} : ClickOption(o)
    \/ ClickNext
    \/ ClickTryAgain
    \/ OpenHistory
    \/ CloseHistory
    \/ \E item \in Range(history) : HandleViewHistoryItem(item)
    \/ HandleClearHistory
    \/ ClickGenerate
    \/ \E i \in DOMAIN gens, stored \in BOOLEAN :
          \E p \in SampleResponses(gens[i].generationMode) : TextResolve(i, p, stored)
    \/ \E i \in DOMAIN gens, why \in {"textRejected", "parseError"} : TextFail(i, why)
    \/ Reload

SpecQuiz == Init /\ [][NextQuiz]_vars

\* Generations from text whose response is any that conforms to the
\* responseSchema, the review of the MCQs and the history panel.
NextSchema ==
    \/ \E t \in Words : SetText(t)
    \/ \E mode \in GenerationModes : ChangeGenerationMode(mode)
    \/ \E o \in Range(OptionPool) : ClickOption(o)
    \/ ClickNext
    \/ ClickTryAgain
    \/ OpenHistory
    \/ CloseHistory
    \/ \E item \in Range(history) : HandleViewHistoryItem(item)
    \/ ClickGenerate
    \/ \E i \in DOMAIN gens :
          \E p \in SchemaResponses(gens[i].generationMode) : TextResolve(i, p, TRUE)

SpecSchema == Init /\ [][NextSchema]_vars

\* Record selection among generations from text, both reviews and theme changes;
\* localStorage has room.
NextSelect ==
    \/ \E t \in Words : SetText(t)
    \/ \E mode \in GenerationModes : ChangeGenerationMode(mode)
    \/ \E selectedTheme \in Themes : HandleThemeChange(selectedTheme, TRUE)
    \/ Flip
    \/ ClickOption(OptionPool[1])
    \/ ClickNext
    \/ OpenHistory
    \/ CloseHistory
    \/ \E item \in Range(history) : SelectRecord(item)
    \/ ClickGenerate
    \/ \E i \in DOMAIN gens :
          \E p \in LongestResponses(gens[i].generationMode) : TextResolve(i, p, TRUE)

SpecSelect == Init /\ [][NextSelect]_vars

\* Card navigation among generations from text, mode changes and record
\* selections, each of which replaces the flashcard list.
NextNav ==
    \/ \E t \in Words : SetText(t)
    \/ \E mode \in GenerationModes : ChangeGenerationMode(mode)
    \/ \E d \in {-1, 1} : NavigateCard(d)
    \/ TimerFire
    \/ OpenHistory
    \/ \E item \in Range(history) : HandleViewHistoryItem(item)
    \/ ClickGenerate
    \/ \E i \in DOMAIN gens :
          \E p \in SampleResponses(gens[i].generationMode) : TextResolve(i, p, TRUE)

SpecNav == Init /\ [][NextNav]_vars

\* The MCQ review machine on a fixed list.
NextMcq ==
    \/ \E o \in Range(OptionPool) : SelectOption(o)
    \/ NextQuestion
    \/ Restart

SpecMcq == InitMcq /\ [][NextMcq]_vars

\* The flashcard review machine on a fixed list.
NextFlash ==
    \/ Flip
    \/ \E d \in {-1, 1} : NavigateCard(d)
    \/ TimerFire

SpecFlash == InitFlash /\ [][NextFlash]_vars

(* ------------------------------- claims ------------------------------- *)
\* C1 (SpecFlash): on a fixed flashcard list, currentCard is always an index of
\* the list, and a delayed index update moves it by its direction when that stays
\* in the list and leaves it unchanged otherwise (no wrap-around).
C1_NavigateStaysInRange ==
    /\ [](currentCard \in 0..(Len(flashcards) - 1))
    /\ [][(timers # << >> /\ timers' = Tail(timers)) =>
            LET next == currentCard + Head(timers).direction
            IN  currentCard' = IF next \in 0..(Len(flashcards) - 1)
                               THEN next ELSE currentCard]_vars

\* The index has reached the last card and an update beyond it is still pending.
C1_Witness ==
    /\ timers # << >>
    /\ Head(timers).direction = 1
    /\ currentCard > 0
    /\ currentCard = Len(flashcards) - 1

\* C2 (SpecQuiz): the score is never negative, never above the number of
\* questions answered so far (so at most currentMcq + 1, and at most the length
\* of a non-empty MCQ list), and it grows only by one, by answering a question
\* not yet answered.
C2_ScoreBounded ==
    /\ [](/\ 0 <= score
          /\ score <= currentMcq + 1
          /\ score <= currentMcq + (IF isAnswered THEN 1 ELSE 0)
          /\ mcqs # << >> => score <= Len(mcqs))
    /\ [][score' > score =>
            /\ score' = score + 1
            /\ ~isAnswered /\ isAnswered'
            /\ currentMcq' = currentMcq]_vars

\* A quiz of at least two questions finished with every answer correct.
C2_Witness ==
    /\ quizFinished
    /\ Len(mcqs) >= 2
    /\ score = Len(mcqs)
    /\ McqViewShown

\* C3 (SpecQuiz) as stated: finished implies the last index of the MCQ list and answered,
\* in every reachable state.
C3_FinishedAtLastAnswered ==
    quizFinished => (currentMcq = Len(mcqs) - 1 /\ isAnswered)

\* C3 as amended: the same while the MCQ list is not empty.
C3_FinishedAtLastAnsweredNonEmpty ==
    (quizFinished /\ mcqs # << >>) => (currentMcq = Len(mcqs) - 1 /\ isAnswered)

\* A finished quiz of two questions on display.
C3_Witness ==
    /\ quizFinished
    /\ Len(mcqs) >= 2
    /\ McqViewShown

\* C4 (SpecMcq): a call of selectOption on an answered question changes none of
\* selected, answered, score, currentIndex and finished.
C4_SelectIdempotent ==
    [][(isAnswered /\ Len(picked') > Len(picked)) => UNCHANGED mcqVars]_vars

\* selectOption has been called on an answered question.
C4_Witness ==
    /\ last = <<"selectOption", "Answered">>
    /\ isAnswered
    /\ selectedOption # picked[Len(picked)][2]

\* Every question has exactly one logged selectOption call, in order.
AnsweredOnceEach ==
    /\ Len(picked) = Len(mcqs)
    /\ \A i \in 1..Len(picked) : picked[i][1] = i - 1

\* The questions whose logged option is the correct answer.
CorrectlyAnswered ==
    {i \in 1..Len(mcqs) : picked[i][2] = mcqs[i].correctAnswer}

\* C5 (SpecMcq): the quiz is finished exactly when next() has been called once
\* per question, and after a pass that answered every question once the score is
\* the number of questions answered with their correctAnswer.
C5_FullPassScore ==
    /\ quizFinished <=> nexts = Len(mcqs)
    /\ (quizFinished /\ AnsweredOnceEach) => score = Cardinality(CorrectlyAnswered)

\* Three questions answered correct, incorrect, correct: finished with score 2.
C5_Witness ==
    /\ quizFinished
    /\ Len(mcqs) = 3
    /\ AnsweredOnceEach
    /\ CorrectlyAnswered = {1, 3}
    /\ score = 2
    /\ nexts = 3

\* C6 (SpecMcq): restart() from any state yields the initial state of the
\* machine and leaves the MCQ list as it was.
C6_RestartResets ==
    [][last'[1] = "restart" =>
         /\ currentMcq' = 0
         /\ selectedOption' = Null
         /\ isAnswered' = FALSE
         /\ score' = 0
         /\ quizFinished' = FALSE
         /\ mcqs' = mcqs]_vars

\* restart() has been called on a finished quiz.
C6_Witness ==
    /\ last = <<"restart", "Finished">>
    /\ ReviewState = "Answering"
    /\ score = 0

\* C7 (SpecGen, Spec): when an icon request rejects, the generic error is set, loading
\* ends, and neither the history, nor its localStorage entry, nor a display list
\* changes.
C7_IconRejectAborts ==
    [][(outcome # "iconRejected" /\ outcome' = "iconRejected") =>
         /\ error' = ErrFailed
         /\ ~isLoading'
         /\ history' = history
         /\ lsHistory' = lsHistory
         /\ flashcards' = flashcards
         /\ mcqs' = mcqs]_vars

\* A generation has ended by a rejected icon request.
C7_Witness ==
    /\ outcome = "iconRejected"
    /\ error = ErrFailed
    /\ ~isLoading

\* " ".trim() === ""
Trim(t) == IF t = " " THEN "" ELSE t

\* C8 (Spec) as stated: no generation runs on a text input that is empty or only
\* white space.
C8_BlankTextRejected ==
    \A i \in DOMAIN gens :
        gens[i].inputType = "text" => Trim(gens[i].inputContent) # ""

\* C9 (Spec) as stated: a generation that completes and stores its record leaves, in
\* memory and in localStorage, the new record followed by exactly the history
\* as it stood just before.
C9_AppendKeepsCurrentHistory ==
    [][(outcome = "started" /\ outcome' = "ok") =>
         /\ Len(history') = Len(history) + 1
         /\ Tail(history') = history
         /\ lsHistory' = <<Stringify(history')>>]_vars

\* C10 (SpecGen, Spec): at most one handleGenerate call is running, and isLoading is true
\* while it runs.
C10_SingleInFlight ==
    /\ Len(gens) <= 1
    /\ gens # << >> => isLoading

\* A generation is running, the user has typed something else since it started,
\* and only isLoading keeps the button disabled.
C10_Witness ==
    /\ Len(gens) = 1
    /\ isLoading
    /\ ~NoContent
    /\ clock < MaxGen
    /\ inputType = "text"
    /\ textContent # gens[1].inputContent

\* C11 (SpecLive) as stated: a generation suspended on the encoder, whether or not
\* the file can be read, is followed by a state in which loading has ended.
C11_EncoderNeverSuspendsForever ==
    (\E i \in DOMAIN gens : gens[i].pc = "encode") ~> ~isLoading

\* Four pairwise distinct options, the correct answer being one of them.
WellFormedMcq(item) ==
    /\ Len(item.options) = 4
    /\ Cardinality(Range(item.options)) = 4
    /\ item.correctAnswer \in Range(item.options)

\* C12 (SpecSchema) as stated: every item of the MCQ display list and of the MCQ
\* records of the history is well formed, whatever schema-conforming response
\* the text service returns.
C12_McqItemsWellFormed ==
    /\ \A i \in DOMAIN mcqs : WellFormedMcq(mcqs[i])
    /\ \A h \in DOMAIN history :
          history[h].generationMode = "mcqs" =>
             \A i \in DOMAIN history[h].generatedData :
                 WellFormedMcq(history[h].generatedData[i])

\* C13 (Spec) as stated: a generation that reaches the persist step puts its record
\* first in the in-memory history, followed by the records that were there just
\* before, unchanged and in order; and within one page load the history loses
\* records only by handleClearHistory, which empties it and removes the entry.
C13_AppendOnlyMostRecentFirst ==
    [][/\ (outcome = "started" /\ outcome' \in {"ok", "storageError"}) =>
            /\ history' # << >>
            /\ history'[1].id = clock
            /\ Tail(history') = history
       /\ (Len(history') < Len(history) /\ outcome' # "none") =>
            /\ history' = << >>
            /\ lsHistory' = Absent]_vars

\* C14 (SpecGen): while every localStorage write succeeds, what the mount effect
\* would load from the history entry equals the in-memory history, field for
\* field and in order, and an empty history has no entry.
C14_WriteThroughRoundTrip ==
    /\ LoadHistory = history
    /\ history = << >> => lsHistory = Absent

\* The page has been loaded again after two appends with a clear in between:
\* the history is the last record alone.
C14_Witness ==
    /\ outcome = "none"
    /\ Len(history) = 1
    /\ history[1].id > 1
    /\ LoadHistory = history

\* C15 (Spec) as stated: when the localStorage write of the persist step fails, the
\* generated items are in their display list, the new record is first in the
\* in-memory history, loading has ended and no error message is set.
C15_StorageFailureSilent ==
    [][(outcome = "started" /\ outcome' = "storageError") =>
         /\ flashcards' # << >> \/ mcqs' # << >>
         /\ history' # << >>
         /\ history'[1].id = clock
         /\ ~isLoading'
         /\ error' = Null]_vars

\* C16 (SpecSelect): a call of handleViewHistoryItem on a record sets the mode, the
\* theme and the display list of the record's mode from the record, empties the
\* other display list, leaves the history as it was, and puts the review machine
\* of the record's mode in its initial state.
C16_SelectRecordRestores ==
    [][Len(picked') > Len(picked) =>
         LET item == picked'[Len(picked')].record IN
         /\ generationMode' = item.generationMode
         /\ theme' = item.theme
         /\ history' = history
         /\ IF item.generationMode = "flashcards"
            THEN /\ flashcards' = item.generatedData
                 /\ mcqs' = << >>
                 /\ currentCard' = 0
                 /\ isFlipped' = FALSE
            ELSE /\ mcqs' = item.generatedData
                 /\ flashcards' = << >>
                 /\ currentMcq' = 0
                 /\ selectedOption' = Null
                 /\ isAnswered' = FALSE
                 /\ score' = 0
                 /\ quizFinished' = FALSE]_vars

\* An MCQ record selected on a finished quiz, then a flashcard record selected
\* while the answer side of a card was on display.
C16_Witness ==
    /\ Len(picked) = 2
    /\ picked[1].record.generationMode = "mcqs"
    /\ picked[1].review = "Finished"
    /\ picked[2].record.generationMode = "flashcards"
    /\ picked[2].flipped
    /\ ~isFlipped
    /\ flashcards = picked[2].record.generatedData

\* C17 (SpecSelect) as stated: the theme a page load would restore from the
\* studyAppTheme entry is the theme in memory, after any theme changes and
\* record selections.
C17_StoredThemeIsCurrent == LoadTheme = theme

\* C18 (SpecGen): the image received for a sub-request is kept at the index of
\* the item whose question its prompt was built from, in whatever order the
\* sub-requests complete; and when the last one completes, the list displayed
\* and recorded has the items of the parsed response in their order, each
\* unchanged but for its icon, which is the data URI of the image of its own
\* question.
C18_IconsMatchItems ==
    /\ [](\A i \in DOMAIN gens : \A k \in DOMAIN gens[i].icons :
            gens[i].icons[k] # NoIcon =>
               gens[i].icons[k] = ImageBytes(gens[i].parsed[k].question))
    /\ [][(gens # << >> /\ gens[1].pc = "icons" /\ outcome' = "ok") =>
            LET g == gens[1]
                data == IF g.generationMode = "mcqs" THEN mcqs' ELSE flashcards'
            IN  /\ Len(data) = Len(g.parsed)
                /\ history'[1].generatedData = data
                /\ \A j \in DOMAIN data :
                      /\ [data[j] EXCEPT !.icon = NoIcon] = g.parsed[j]
                      /\ data[j].icon = DataUri(ImageBytes(g.parsed[j].question))]_vars

\* The image of the second item has arrived, that of the first has not.
C18_Witness ==
    /\ gens # << >>
    /\ gens[1].pc = "icons"
    /\ Len(gens[1].icons) >= 2
    /\ gens[1].icons[1] = NoIcon
    /\ gens[1].icons[2] = ImageBytes(Question(2))

\* C19 (SpecNav) as stated: whenever the flashcard list is not empty, currentCard is
\* an index of it, also when the list was replaced while a delayed index
\* update was pending.
C19_CardIndexValid ==
    flashcards # << >> => currentCard \in 0..(Len(flashcards) - 1)

\* C20 (SpecFlash) as stated: when a delayed index update changes currentCard, the
\* card is front-shown.
C20_MoveShowsFront ==
    [][currentCard' # currentCard => ~isFlipped']_vars

\* C21 (SpecGen) as stated: at most one of the two display lists is non-empty in
\* every reachable state, and a generation that completes leaves its items in
\* the display list of the generationMode current at that moment.
C21_DisplayMatchesMode ==
    /\ [](flashcards = << >> \/ mcqs = << >>)
    /\ [][(outcome = "started" /\ outcome' = "ok") =>
            /\ history' # << >>
            /\ IF generationMode' = "mcqs"
               THEN mcqs' = history'[1].generatedData
               ELSE flashcards' = history'[1].generatedData]_vars

====
